---- MODULE Spec2Model ----
(***************************************************************************)
(* Model of apscheduler/triggers/combining.py: BaseCombiningTrigger,       *)
(* AndTrigger and OrTrigger.                                               *)
(*                                                                         *)
(* Instants and durations are whole seconds (naturals).  Python's None is  *)
(* the value None == -1, which is never an instant.                        *)
(*                                                                         *)
(* Line 91 of combining.py is not a well-formed expression (a conditional  *)
(* expression without its else part).  The variable "reading" ranges over  *)
(* the two ways the line can be read; it is fixed at construction:         *)
(*   "else_none": x.interval_length if isinstance(...) else None           *)
(*   "filter"   : only the interval triggers contribute a length           *)
(***************************************************************************)
EXTENDS Integers, Sequences, FiniteSets

\* ---------------------------------------------------------------- bounds
MaxTriggers == 3
MaxNow == 3
MaxPrev == 0
MaxJitter == 1
MaxUnroll == 3

None == -1

\* the value standing for "the call raised" where a fire time is expected
Raise == -2

Max(a, b) == IF a >= b THEN a ELSE b

\* ------------------------------------------------- sub-triggers (external)
\* A sub-trigger is a record; the combinators read its class (kind) and, for
\* interval triggers, interval_length.
Interval(len, sd, ed) ==
    [kind |-> "interval", interval_length |-> len, start_date |-> sd,
     end_date |-> ed, run_date |-> None, times |-> {}, subs |-> <<>>]

Date(rd) ==
    [kind |-> "date", interval_length |-> None, start_date |-> None,
     end_date |-> None, run_date |-> rd, times |-> {}, subs |-> <<>>]

Cron(ts) ==
    [kind |-> "cron", interval_length |-> None, start_date |-> None,
     end_date |-> None, run_date |-> None, times |-> ts, subs |-> <<>>]

\* a trigger of some other class whose get_next_fire_time raises
Faulty ==
    [kind |-> "faulty", interval_length |-> None, start_date |-> None,
     end_date |-> None, run_date |-> None, times |-> {}, subs |-> <<>>]

\* an OrTrigger without jitter used as a sub-trigger
Nested(ts) ==
    [kind |-> "or", interval_length |-> None, start_date |-> None,
     end_date |-> None, run_date |-> None, times |-> {}, subs |-> ts]

TriggerPool ==
    { Interval(2, 1, None), Interval(3, 1, None), Interval(2, 0, 2),
      Date(1), Date(2), Faulty,
      Nested(<<Date(2), Cron({1, 3})>>) }

CeilDiv(a, b) == (a + b - 1) \div b

SetMin(S) == CHOOSE x \in S : \A y \in S : x <= y

\* IntervalTrigger.get_next_fire_time
IntervalNext(t, previous_fire_time, now) ==
    LET nft == IF previous_fire_time # None
               THEN previous_fire_time + t.interval_length
               ELSE IF t.start_date > now
                    THEN t.start_date
                    ELSE t.start_date
                         + CeilDiv(now - t.start_date, t.interval_length)
                           * t.interval_length
    IN IF t.end_date = None \/ nft <= t.end_date THEN nft ELSE None

\* DateTrigger.get_next_fire_time: one shot
DateNext(t, previous_fire_time, now) ==
    IF previous_fire_time = None THEN t.run_date ELSE None

\* CronTrigger.get_next_fire_time: the first matching instant at or after now
\* and after the previous fire time
CronNext(t, previous_fire_time, now) ==
    LET ok == { x \in t.times :
                  x >= now /\ (previous_fire_time = None \/ x > previous_fire_time) }
    IN IF ok = {} THEN None ELSE SetMin(ok)

\* ------------------------------------------------------ sequence helpers
\* a plausible slip: the first element instead of the least
SeqMinFirst(s) == s[1]

RECURSIVE SeqMin(_)
SeqMin(s) ==
    IF Len(s) = 1 THEN s[1]
    ELSE LET m == SeqMin(Tail(s)) IN IF s[1] <= m THEN s[1] ELSE m

IsInSeq(x, s) == \E i \in 1..Len(s) : s[i] = x

\* line 139: drop the None entries
RECURSIVE DropNone(_)
DropNone(s) ==
    IF s = <<>> THEN <<>>
    ELSE IF s[1] # None THEN <<s[1]>> \o DropNone(Tail(s))
         ELSE DropNone(Tail(s))

RECURSIVE SubNext(_, _, _)

\* OrTrigger.get_next_fire_time, lines 136-143, of a nested OrTrigger: it
\* has no jitter, and a raise of one of its members is its own raise
NestedOrNext(t, previous_fire_time, now) ==
    LET found == DropNone([i \in 1..Len(t.subs) |->
                             SubNext(t.subs[i], previous_fire_time, now)])
    IN IF IsInSeq(Raise, found) THEN Raise
       ELSE IF found # <<>> THEN SeqMin(found)
       ELSE None

\* trigger.get_next_fire_time(previous_fire_time, now), by class
SubNext(t, previous_fire_time, now) ==
    CASE t.kind = "interval" -> IntervalNext(t, previous_fire_time, now)
      [] t.kind = "date"     -> DateNext(t, previous_fire_time, now)
      [] t.kind = "cron"     -> CronNext(t, previous_fire_time, now)
      [] t.kind = "faulty"   -> Raise
      [] t.kind = "or"       -> NestedOrNext(t, previous_fire_time, now)

\* BaseTrigger._apply_jitter(next_fire_time, jitter, now) with the random
\* offset made explicit
ApplyJitter(time, bound, now, offset) ==
    IF bound = None THEN time ELSE Max(time + offset, now)

\* the offsets random.uniform(-jitter, jitter) can draw
JitterOffsets(bound) == IF bound = None THEN {0} ELSE (0 - bound)..bound

RECURSIVE SeqMax(_)
SeqMax(s) ==
    IF Len(s) = 1 THEN s[1]
    ELSE LET m == SeqMax(Tail(s)) IN IF s[1] >= m THEN s[1] ELSE m

RECURSIVE SelectKind(_, _)
SelectKind(s, keep) ==
    IF s = <<>> THEN <<>>
    ELSE IF keep[s[1].kind] THEN <<s[1]>> \o SelectKind(Tail(s), keep)
         ELSE SelectKind(Tail(s), keep)

\* math.gcd
RECURSIVE gcd(_, _)
gcd(x, y) == IF y = 0 THEN x ELSE gcd(y, x % y)

\* a plausible slip: a sum where the product belongs
lcmSum(x, y) == (x + y) \div gcd(x, y)

\* lcm(x, y) = int(x * y / math.gcd(x, y))
lcm(x, y) == (x * y) \div gcd(x, y)

\* ------------------------------------------------------------ AndTrigger
Kinds == {"interval", "date", "cron", "faulty", "or"}
IsInterval == [k \in Kinds |-> k = "interval"]
NotInterval == [k \in Kinds |-> k # "interval"]
IsDate == [k \in Kinds |-> k = "date"]

\* line 91: lengths = map(lambda x: x.interval_length if isinstance(x,
\* IntervalTrigger), self.triggers), under either reading
Lengths(trigs, rd) ==
    IF rd = "else_none"
    THEN [i \in 1..Len(trigs) |->
            IF trigs[i].kind = "interval" THEN trigs[i].interval_length ELSE None]
    ELSE LET iv == SelectKind(trigs, IsInterval)
         IN [i \in 1..Len(iv) |-> iv[i].interval_length]

\* functools.reduce(lcm, lengths) without an initial value: an empty sequence
\* raises TypeError, a single element is returned untouched, and lcm raises
\* TypeError when it multiplies by None
RECURSIVE FoldLcm(_, _)
FoldLcm(acc, s) ==
    IF s = <<>> THEN [err |-> FALSE, val |-> acc]
    ELSE IF acc = None \/ s[1] = None THEN [err |-> TRUE, val |-> None]
         ELSE FoldLcm(lcm(acc, s[1]), Tail(s))

ReduceLcm(lengths) ==
    IF lengths = <<>> THEN [err |-> TRUE, val |-> None]
    ELSE FoldLcm(lengths[1], Tail(lengths))

\* lines 97-99: for d in dates: if not (d.get_next_fire_time(...) - now)
\* .total_seconds() / lcm_secs: return None.  The results the for loop
\* obtains, up to and including the one that ends it: a raise, a None (None -
\* now raises TypeError) or now itself (the quotient is falsy exactly when the
\* difference is zero, lcm_secs >= 1).
RECURSIVE PreQueried(_, _, _)
PreQueried(dates, previous_fire_time, now) ==
    IF dates = <<>> THEN <<>>
    ELSE LET v == SubNext(dates[1], previous_fire_time, now)
         IN IF v = Raise \/ v = None \/ v - now = 0 THEN <<v>>
            ELSE <<v>> \o PreQueried(Tail(dates), previous_fire_time, now)

\* a plausible slip: a raising member is skipped by the for loop
PreCheckSkipsRaise(dates, previous_fire_time, now) ==
    LET q == PreQueried(dates, previous_fire_time, now)
        last == q[Len(q)]
    IN IF q = <<>> THEN "pass"
       ELSE IF last = Raise THEN "pass"
       ELSE IF last = None THEN "TypeError"
       ELSE IF last - now = 0 THEN "none"
       ELSE "pass"

\* how the for loop of lines 97-99 ends
PreCheck(dates, previous_fire_time, now) ==
    LET q == PreQueried(dates, previous_fire_time, now)
        last == q[Len(q)]
    IN IF q = <<>> THEN "pass"
       ELSE IF last = Raise THEN "SubError"
       ELSE IF last = None THEN "TypeError"
       ELSE IF last - now = 0 THEN "none"
       ELSE "pass"

\* lines 102-103: the fire times of the DateTrigger members
FireTimes(trigs, previous_fire_time, now) ==
    LET ds == SelectKind(trigs, IsDate)
    IN [i \in 1..Len(ds) |-> SubNext(ds[i], previous_fire_time, now)]

\* lines 110-113: the all-interval result
LcmResult(previous_fire_time, now, lcm_secs) ==
    IF previous_fire_time # None THEN previous_fire_time + lcm_secs
    ELSE now + lcm_secs

\* a plausible slip: the previous fire time is not handed on
DelegateNoPrevious(trigs, p, n) == SubNext(trigs[1], None, n)

\* line 88: self.triggers[0].get_next_fire_time(previous_fire_time, now)
Delegate(trigs, p, n) == SubNext(trigs[1], p, n)

\* lines 85-100 and 110-113: how the call stands when it reaches the while
\* loop, or how it ended before
AndEntry(trigs, rd, p, n) ==
    IF trigs = <<>> THEN [pc |-> "done", outcome |-> "return", value |-> None]
    ELSE IF Len(trigs) = 1
    THEN LET v == Delegate(trigs, p, n)
         IN IF v = Raise THEN [pc |-> "done", outcome |-> "SubError", value |-> None]
            ELSE [pc |-> "done", outcome |-> "return", value |-> v]
    ELSE LET lcm_secs == ReduceLcm(Lengths(trigs, rd))
             dates == SelectKind(trigs, NotInterval)
             chk == PreCheck(dates, p, n)
         IN IF lcm_secs.err
            THEN [pc |-> "done", outcome |-> "TypeError", value |-> None]
            ELSE IF chk \in {"TypeError", "SubError"}
            THEN [pc |-> "done", outcome |-> chk, value |-> None]
            ELSE IF chk = "none"
            THEN [pc |-> "done", outcome |-> "return", value |-> None]
            ELSE IF dates # <<>>
            THEN [pc |-> "loop", outcome |-> "none", value |-> None]
            ELSE [pc |-> "done", outcome |-> "return",
                  value |-> LcmResult(p, n, lcm_secs.val)]

\* ---------------------------------------------------------- serialization
\* obj_to_ref(trigger.__class__): the reference the registry stores for a class
TypeRef(t) ==
    CASE t.kind = "interval" -> "apscheduler.triggers.interval:IntervalTrigger"
      [] t.kind = "date"     -> "apscheduler.triggers.date:DateTrigger"
      [] t.kind = "cron"     -> "apscheduler.triggers.cron:CronTrigger"
      [] t.kind = "faulty"   -> "plugin:FaultyTrigger"
      [] t.kind = "or"       -> "apscheduler.triggers.combining:OrTrigger"

KnownRefs ==
    { "apscheduler.triggers.interval:IntervalTrigger",
      "apscheduler.triggers.date:DateTrigger",
      "apscheduler.triggers.cron:CronTrigger",
      "plugin:FaultyTrigger",
      "apscheduler.triggers.combining:OrTrigger" }

\* ref_to_obj(clsref): the class a reference names; only known references
\* resolve
ResolveRef(ref) ==
    CASE ref = "apscheduler.triggers.interval:IntervalTrigger" -> "interval"
      [] ref = "apscheduler.triggers.date:DateTrigger"         -> "date"
      [] ref = "apscheduler.triggers.cron:CronTrigger"         -> "cron"
      [] ref = "plugin:FaultyTrigger"                          -> "faulty"
      [] ref = "apscheduler.triggers.combining:OrTrigger"      -> "or"

\* trigger.__getstate__() of a sub-trigger: its fields, without its class; a
\* nested combinator's is lines 22-28 again, with its members' references
\* and states
RECURSIVE TriggerGetState(_)
TriggerGetState(t) ==
    [version |-> 1, interval_length |-> t.interval_length,
     start_date |-> t.start_date, end_date |-> t.end_date,
     run_date |-> t.run_date, times |-> t.times,
     triggers |-> [i \in 1..Len(t.subs) |->
                     <<TypeRef(t.subs[i]), TriggerGetState(t.subs[i])>>],
     jitter |-> None]

\* trigger.__setstate__(state) of a sub-trigger refuses a newer version
TriggerStateOk(inner) == inner.version <= 1

RECURSIVE RestoreLoop(_, _)

\* cls.__new__(cls) followed by trigger.__setstate__(state); a nested
\* combinator rebuilds its members by lines 37-42 again
TriggerSetState(cls, inner) ==
    [kind |-> cls, interval_length |-> inner.interval_length,
     start_date |-> inner.start_date, end_date |-> inner.end_date,
     run_date |-> inner.run_date, times |-> inner.times,
     subs |-> RestoreLoop(inner.triggers, <<>>).triggers]

\* BaseCombiningTrigger.__getstate__, lines 22-28
GetState(trigs, jit) ==
    [version |-> 1,
     triggers |-> [i \in 1..Len(trigs) |->
                     <<TypeRef(trigs[i]), TriggerGetState(trigs[i])>>],
     jitter |-> jit]

\* state.get('version', 1), line 31: a missing version counts as 1
StateVersion(state) == IF state.version = None THEN 1 ELSE state.version

\* a plausible slip: each rebuilt sub-trigger is put in front of the list
RECURSIVE RestoreLoopPrepends(_, _)
RestoreLoopPrepends(pairs, acc) ==
    IF pairs = <<>> THEN [outcome |-> "restored", triggers |-> acc]
    ELSE LET clsref == pairs[1][1]
             inner == pairs[1][2]
         IN IF clsref \notin KnownRefs
            THEN [outcome |-> "TypeResolutionError", triggers |-> acc]
            ELSE IF ~ TriggerStateOk(inner)
            THEN [outcome |-> "SubStateError", triggers |-> acc]
            ELSE RestoreLoopPrepends(Tail(pairs),
                     <<TriggerSetState(ResolveRef(clsref), inner)>> \o acc)

\* lines 38-42: rebuild the sub-triggers one by one onto self.triggers; a
\* reference that does not resolve, or a sub-trigger that refuses its state,
\* ends the loop with what has been appended so far
RestoreLoop(pairs, acc) ==
    IF pairs = <<>> THEN [outcome |-> "restored", triggers |-> acc]
    ELSE LET clsref == pairs[1][1]
             inner == pairs[1][2]
         IN IF clsref \notin KnownRefs
            THEN [outcome |-> "TypeResolutionError", triggers |-> acc]
            ELSE IF ~ TriggerStateOk(inner)
            THEN [outcome |-> "SubStateError", triggers |-> acc]
            ELSE RestoreLoop(Tail(pairs),
                             Append(acc, TriggerSetState(ResolveRef(clsref), inner)))

\* a plausible slip: self.jitter is assigned before the version test
SetStateResultEarlyJitter(trigs, jit, state) ==
    IF StateVersion(state) > 1
    THEN [outcome |-> "ValueError", triggers |-> trigs, jitter |-> state.jitter]
    ELSE LET r == RestoreLoop(state.triggers, <<>>)
         IN [outcome |-> r.outcome, triggers |-> r.triggers, jitter |-> state.jitter]

\* BaseCombiningTrigger.__setstate__, lines 30-42: the outcome and the
\* attributes of self when the call ends
SetStateResult(trigs, jit, state) ==
    IF StateVersion(state) > 1
    THEN [outcome |-> "ValueError", triggers |-> trigs, jitter |-> jit]
    ELSE LET r == RestoreLoop(state.triggers, <<>>)
         IN [outcome |-> r.outcome, triggers |-> r.triggers, jitter |-> state.jitter]

NoState == [version |-> None, triggers |-> <<>>, jitter |-> None]

\* the serialized states handed to __setstate__ besides the instance's own:
\* states of small combinators, with the version changed or one entry spoilt
StoredPool == { Interval(2, 1, None), Date(1) }
StoredSeqs == UNION { [1..n -> StoredPool] : n \in 0..2 }
StoredStates == { GetState(q, 0) : q \in StoredSeqs }

BadRef(state, k) ==
    [state EXCEPT !.triggers[k] = <<"apscheduler.triggers.gone:GoneTrigger", @[2]>>]

BadInner(state, k) ==
    [state EXCEPT !.triggers[k] = <<@[1], [@[2] EXCEPT !.version = 2]>>]

\* the stored states that are varied: their version field is dropped or
\* raised, or one of their two different entries is spoilt
Reversioned == { st \in StoredStates : Len(st.triggers) = 2 /\ st.triggers[1] # st.triggers[2] }

StateInputs ==
    StoredStates
    \cup { [st EXCEPT !.version = v] : st \in Reversioned, v \in {None, 2} }
    \cup UNION { { BadRef(st, k) : k \in 1..Len(st.triggers) } : st \in Reversioned }
    \cup UNION { { BadInner(st, k) : k \in 1..Len(st.triggers) } : st \in Reversioned }

VARIABLES kind, triggers, jitter, reading,
          pc, op, previous_fire_time, now_arg, now, fire_times, result,
          outcome, jitterLog, state_arg, raised

vars == <<kind, triggers, jitter, reading,
          pc, op, previous_fire_time, now_arg, now, fire_times, result,
          outcome, jitterLog, state_arg, raised>>

config == <<kind, triggers, jitter, reading>>

TriggerSeqs == UNION { [1..n -> TriggerPool] : n \in 0..MaxTriggers }
JitterBounds == {None} \cup 0..MaxJitter
PrevTimes == {None} \cup 0..MaxPrev
NowTimes == 0..MaxNow

\* BaseCombiningTrigger.__init__.  Line 91 is in AndTrigger.get_next_fire_time
\* only: an OrTrigger behaves the same under both readings and keeps one.
Init ==
    /\ kind \in {"and", "or"}
    /\ triggers \in TriggerSeqs
    /\ jitter \in JitterBounds
    /\ reading \in IF kind = "and" THEN {"else_none", "filter"} ELSE {"else_none"}
    /\ pc = "idle"
    /\ op = "none"
    /\ state_arg = NoState
    /\ raised = FALSE
    /\ previous_fire_time = None
    /\ now_arg = 0
    /\ now = 0
    /\ fire_times = <<>>
    /\ result = None
    /\ outcome = "none"
    /\ jitterLog = <<>>

\* a plausible slip: the non-interval members are filtered out of
\* self.triggers itself
FrameConsumesTriggers ==
    /\ triggers' = SelectKind(triggers, IsInterval)
    /\ UNCHANGED <<kind, jitter, reading>>

\* get_next_fire_time, lines 83-113 and 136-143, assigns no attribute of self
Frame == UNCHANGED <<kind, triggers, jitter, reading>>

\* a plausible slip: the new value never reaches the loop's now
NextCandidateStale(times, candidate) == candidate

\* line 109: now = max(fire_times)
NextCandidate(times, candidate) == SeqMax(times)

Finish(out, res, log) ==
    /\ pc' = "done"
    /\ outcome' = out
    /\ result' = res
    /\ jitterLog' = log

\* the sub-trigger results lines 85-99 obtain: none without sub-triggers,
\* the delegate's with one, the for loop's once lcm_secs has been computed
EntryQueried(trigs, rd, p, n) ==
    IF trigs = <<>> THEN <<>>
    ELSE IF Len(trigs) = 1 THEN <<SubNext(trigs[1], p, n)>>
    ELSE IF ReduceLcm(Lengths(trigs, rd)).err THEN <<>>
    ELSE PreQueried(SelectKind(trigs, NotInterval), p, n)

\* AndTrigger.get_next_fire_time, lines 85-100 and 110-113: everything up to
\* the entry of the while loop
AndCall(p, n) ==
    /\ kind = "and"
    /\ pc = "idle"
    /\ previous_fire_time' = p
    /\ now_arg' = n
    /\ now' = n
    /\ op' = "next_fire_time"
    /\ Frame
    /\ UNCHANGED <<fire_times, state_arg>>
    /\ raised' = IsInSeq(Raise, EntryQueried(triggers, reading, p, n))
    /\ LET e == AndEntry(triggers, reading, p, n)
       IN /\ pc' = e.pc
          /\ outcome' = e.outcome
          /\ result' = e.value
          /\ jitterLog' = <<>>

\* lines 102-103 of the while loop: query the members; a raise leaves the
\* comprehension and the call
AndQuery ==
    /\ kind = "and"
    /\ pc = "loop"
    /\ Frame
    /\ UNCHANGED <<op, state_arg, previous_fire_time, now_arg, now>>
    /\ LET times == FireTimes(triggers, previous_fire_time, now)
       IN IF IsInSeq(Raise, times)
          THEN /\ Finish("SubError", None, jitterLog)
               /\ raised' = TRUE
               /\ UNCHANGED fire_times
          ELSE /\ pc' = "compare"
               /\ fire_times' = times
               /\ UNCHANGED <<result, outcome, jitterLog, raised>>

\* lines 104-109 of the while loop: return, or move now and go round again
AndCompare(off) ==
    /\ kind = "and"
    /\ pc = "compare"
    /\ fire_times' = <<>>
    /\ Frame
    /\ UNCHANGED <<op, state_arg, previous_fire_time, now_arg, raised>>
    /\ IF IsInSeq(None, fire_times)
       THEN /\ Finish("return", None, jitterLog)
            /\ UNCHANGED now
       ELSE IF fire_times = <<>>
       THEN /\ Finish("ValueError", None, jitterLog)
            /\ UNCHANGED now
       ELSE IF SeqMin(fire_times) = SeqMax(fire_times)
       THEN /\ Finish("return", ApplyJitter(fire_times[1], jitter, now, off),
                      Append(jitterLog,
                             [time |-> fire_times[1], bound |-> jitter, now |-> now]))
            /\ UNCHANGED now
       ELSE /\ now' = NextCandidate(fire_times, now)
            /\ pc' = "loop"
            /\ UNCHANGED <<result, outcome, jitterLog>>

AndCompareStep == \E off \in JitterOffsets(jitter) : AndCompare(off)

\* ------------------------------------------------------------- OrTrigger
\* lines 137-138
OrQueried(trigs, p, n) == [i \in 1..Len(trigs) |-> SubNext(trigs[i], p, n)]

\* a plausible slip: min() of the filtered list without the emptiness test
OrResultNoEmptyTest(trigs, jit, p, n, off) ==
    LET found == DropNone(OrQueried(trigs, p, n))
    IN IF IsInSeq(Raise, found)
       THEN [outcome |-> "SubError", value |-> None, log |-> <<>>]
       ELSE IF found # <<>>
       THEN [outcome |-> "return",
             value |-> ApplyJitter(SeqMin(found), jit, n, off),
             log |-> <<[time |-> SeqMin(found), bound |-> jit, now |-> n]>>]
       ELSE [outcome |-> "ValueError", value |-> None, log |-> <<>>]

\* a plausible slip: a raising sub-trigger is caught and counted as finished
OrResultSwallows(trigs, jit, p, n, off) ==
    LET found == SelectSeq(DropNone(OrQueried(trigs, p, n)), LAMBDA x : x # Raise)
    IN IF found # <<>>
       THEN [outcome |-> "return",
             value |-> ApplyJitter(SeqMin(found), jit, n, off),
             log |-> <<[time |-> SeqMin(found), bound |-> jit, now |-> n]>>]
       ELSE [outcome |-> "return", value |-> None, log |-> <<>>]

\* OrTrigger.get_next_fire_time, lines 137-143: the outcome of the call; a
\* raise in the comprehension of lines 137-138 leaves the call
OrResult(trigs, jit, p, n, off) ==
    LET found == DropNone(OrQueried(trigs, p, n))
    IN IF IsInSeq(Raise, found)
       THEN [outcome |-> "SubError", value |-> None, log |-> <<>>]
       ELSE IF found # <<>>
       THEN [outcome |-> "return",
             value |-> ApplyJitter(SeqMin(found), jit, n, off),
             log |-> <<[time |-> SeqMin(found), bound |-> jit, now |-> n]>>]
       ELSE [outcome |-> "return", value |-> None, log |-> <<>>]

\* OrTrigger.get_next_fire_time, lines 136-143
OrCall(p, n, off) ==
    /\ kind = "or"
    /\ pc = "idle"
    /\ previous_fire_time' = p
    /\ now_arg' = n
    /\ now' = n
    /\ op' = "next_fire_time"
    /\ Frame
    /\ UNCHANGED <<fire_times, state_arg>>
    /\ raised' = IsInSeq(Raise, OrQueried(triggers, p, n))
    /\ LET r == OrResult(triggers, jitter, p, n, off)
       IN Finish(r.outcome, r.value, r.log)

AndCallStep == \E p \in PrevTimes, n \in NowTimes : AndCall(p, n)

OrCallStep ==
    \E p \in PrevTimes, n \in NowTimes, off \in JitterOffsets(jitter) : OrCall(p, n, off)

\* the call hands its outcome to the caller; the instance is ready for the
\* next call
Return ==
    /\ pc = "done"
    /\ pc' = "idle"
    /\ previous_fire_time' = None
    /\ now_arg' = 0
    /\ now' = 0
    /\ result' = None
    /\ outcome' = "none"
    /\ jitterLog' = <<>>
    /\ op' = "none"
    /\ state_arg' = NoState
    /\ raised' = FALSE
    /\ UNCHANGED <<config, fire_times>>

\* BaseCombiningTrigger.__setstate__(state), lines 30-42
SetState(state) ==
    /\ pc = "idle"
    /\ op' = "setstate"
    /\ state_arg' = state
    /\ LET r == SetStateResult(triggers, jitter, state)
       IN /\ triggers' = r.triggers
          /\ jitter' = r.jitter
          /\ Finish(r.outcome, None, <<>>)
    /\ UNCHANGED <<kind, reading, previous_fire_time, now_arg, now, fire_times, raised>>

\* the state comes from this instance's own __getstate__ or from storage
SetStateStep ==
    \E state \in StateInputs \cup {GetState(triggers, jitter)} : SetState(state)

Next ==
    AndCallStep \/ AndQuery \/ AndCompareStep \/ OrCallStep \/ SetStateStep \/ Return

Spec == Init /\ [][Next]_vars

\* the caller's thread keeps executing the loop it has entered
FairSpec == Spec /\ WF_vars(AndQuery) /\ WF_vars(AndCompareStep)

TypeOK ==
    /\ kind \in {"and", "or"}
    /\ triggers \in TriggerSeqs
    /\ jitter \in JitterBounds
    /\ pc \in {"idle", "loop", "compare", "done"}
    /\ op \in {"none", "next_fire_time", "setstate"}
    /\ outcome \in {"none", "return", "TypeError", "ValueError", "SubError", "restored",
                    "TypeResolutionError", "SubStateError"}
    /\ result \in Int

\* ================================================================ claims
Called == pc = "done" /\ op = "next_fire_time"

Returned == Called /\ outcome = "return"

Accepts(c, t) ==
    \A i \in 1..Len(triggers) : SubNext(triggers[i], previous_fire_time, c) = t

AndOfSeveral == kind = "and" /\ Len(triggers) >= 2

\* C1 (agreement): when an AndTrigger of two or more sub-triggers without
\* jitter returns an instant t, there is a candidate c >= now for which every
\* sub-trigger's next fire time is t.
C1_Agreement ==
    (AndOfSeveral /\ jitter = None /\ Returned /\ result # None)
        => \E c \in now_arg..Max(now_arg, result) : Accepts(c, result)

\* C2 (minimality): the instant t returned by an AndTrigger of two or more
\* sub-triggers without jitter is not before now, and no instant u with
\* now <= u < t is accepted by every sub-trigger as its own fire time.
C2_Minimality ==
    (AndOfSeveral /\ jitter = None /\ Returned /\ result # None)
        => /\ result >= now_arg
           /\ ~ \E u \in now_arg..(result - 1) : Accepts(u, u)

\* C3 (termination): a call of AndTrigger.get_next_fire_time that has entered
\* the rendezvous search always comes to an end.
C3_Termination == (pc = "loop") ~> (pc = "done")

\* C4: an AndTrigger returns None whenever some sub-trigger returns None for
\* a queried candidate, the first query (candidate = now) included.
C4_NoneWhenFinished ==
    (kind = "and" /\ Called
       /\ \E i \in 1..Len(triggers) :
            SubNext(triggers[i], previous_fire_time, now_arg) = None)
        => (outcome = "return" /\ result = None)

SubResults ==
    { SubNext(triggers[i], previous_fire_time, now_arg) : i \in 1..Len(triggers) }

\* C5: without jitter an OrTrigger returns the least of its sub-triggers'
\* non-None results, and None exactly when every sub-trigger returns None.
C5_OrMinimum ==
    (kind = "or" /\ Called /\ jitter = None /\ Raise \notin SubResults)
        => LET rs == SubResults \ {None}
           IN /\ outcome = "return"
              /\ (result = None) <=> (rs = {})
              /\ rs # {} => (result \in rs /\ \A r \in rs : result <= r)

C5_Witness ==
    /\ kind = "or" /\ Called /\ jitter = None
    /\ Len(triggers) = 3
    /\ None \in SubResults
    /\ Cardinality(SubResults) = 3
    /\ result # SubNext(triggers[1], previous_fire_time, now_arg)
    /\ result # None

PeriodsTwoAndThree ==
    /\ Len(triggers) = 2
    /\ \A i \in 1..2 : triggers[i].kind = "interval" /\ triggers[i].end_date = None
    /\ {triggers[1].interval_length, triggers[2].interval_length} = {2, 3}
    /\ triggers[1].start_date = triggers[2].start_date

C7_SingleDelegates ==
    (kind = "and" /\ Called /\ Len(triggers) = 1 /\ Raise \notin SubResults)
        => /\ outcome = "return"
           /\ result = SubNext(triggers[1], previous_fire_time, now_arg)

C7_Witness ==
    /\ kind = "and" /\ Called /\ Len(triggers) = 1
    /\ triggers[1].kind = "interval"
    /\ previous_fire_time # None
    /\ jitter # None
    /\ result = previous_fire_time + triggers[1].interval_length

\* C8: a combinator without sub-triggers returns None, for every previous
\* fire time, now and jitter bound, and does not raise.
C8_EmptyNeverFires ==
    (Called /\ triggers = <<>>) => (outcome = "return" /\ result = None)

C8_Witness ==
    /\ Called /\ triggers = <<>> /\ kind = "or"
    /\ jitter = MaxJitter /\ previous_fire_time # None /\ now_arg > 0
    /\ result = None

\* C9: with a jitter bound >= 0, a non-None result of an OrTrigger, or of an
\* AndTrigger that merges two or more sub-triggers, is never earlier than the
\* now passed to the call.
C9_NotBeforeNow ==
    (Returned /\ result # None /\ jitter # None /\ (kind = "or" \/ AndOfSeveral))
        => result >= now_arg

\* C10: whenever an OrTrigger, or an AndTrigger of two or more sub-triggers,
\* with a jitter bound returns an instant, the jitter applier has been called
\* exactly once in that call, with the combinator's own bound.
C10_JitterOnce ==
    (Returned /\ result # None /\ jitter # None /\ (kind = "or" \/ AndOfSeveral))
        => (Len(jitterLog) = 1 /\ jitterLog[1].bound = jitter)

\* C11 (round trip): __setstate__ applied to the instance's own __getstate__
\* succeeds and leaves the jitter and the sequence of sub-triggers, order
\* included, as they were.
C11_RoundTrip ==
    [][(pc = "idle" /\ op' = "setstate" /\ state_arg' = GetState(triggers, jitter))
         => (outcome' = "restored" /\ triggers' = triggers /\ jitter' = jitter)]_vars

C11_Witness ==
    /\ pc = "done" /\ op = "setstate" /\ outcome = "restored"
    /\ state_arg = GetState(triggers, jitter)
    /\ Len(triggers) = 3
    /\ triggers[1] # triggers[2] /\ triggers[2] # triggers[3]
    /\ triggers[2].kind = "or" /\ Len(triggers[2].subs) = 2
    /\ jitter = MaxJitter

\* C12: __setstate__ of a state whose version is greater than 1 fails with the
\* version error and leaves the triggers and the jitter of the target as they
\* were.
C12_NewerVersionRejected ==
    [][(pc = "idle" /\ op' = "setstate" /\ StateVersion(state_arg') > 1)
         => (outcome' = "ValueError" /\ triggers' = triggers /\ jitter' = jitter)]_vars

C12_Witness ==
    /\ pc = "done" /\ op = "setstate" /\ outcome = "ValueError"
    /\ state_arg.version = 2
    /\ state_arg.jitter # jitter
    /\ Len(state_arg.triggers) # Len(triggers)

SetStateFailedOnEntry(o) == o \in {"TypeResolutionError", "SubStateError"}

\* C18: when __setstate__ fails on the k-th stored sub-trigger (its reference
\* does not resolve, or the sub-trigger refuses its state), the triggers and
\* the jitter of the target are as they were before the call.
C18_FailedRestoreChangesNothing ==
    [][(pc = "idle" /\ op' = "setstate" /\ SetStateFailedOnEntry(outcome'))
         => (triggers' = triggers /\ jitter' = jitter)]_vars

\* C13: an AndTrigger returns None only if it has no sub-triggers or some
\* sub-trigger returned None for a candidate queried during the call.
C13_NoneOnlyWhenFinished ==
    (kind = "and" /\ Returned /\ result = None)
        => \/ triggers = <<>>
           \/ \E i \in 1..Len(triggers), c \in {now_arg, now} :
                SubNext(triggers[i], previous_fire_time, c) = None

AllExceed(times, candidate) == \A i \in 1..Len(times) : times[i] > candidate

\* C15 (monotonic progress): an iteration of the search that does not return
\* moves the candidate strictly forward, provided every fire time the queried
\* sub-triggers gave exceeds the candidate they were given.
C15_MonotonicProgress ==
    [][(pc = "compare" /\ pc' = "loop" /\ AllExceed(fire_times, now))
         => now' > now]_vars

C15_Witness ==
    /\ kind = "and" /\ pc = "loop"
    /\ now > now_arg
    /\ AllExceed(FireTimes(triggers, previous_fire_time, now_arg), now_arg)

C14_SubErrorPropagates ==
    (Called /\ raised) => (outcome = "SubError" /\ result = None)

C14_Witness ==
    /\ Called /\ raised /\ kind = "or"
    /\ Len(triggers) = 3
    /\ triggers[2] = Faulty
    /\ triggers[1].kind = "date" /\ previous_fire_time = None
    /\ outcome = "SubError"

\* ------------------------------------------- a call as a function of its inputs
\* the while loop of lines 101-109 run to its end without jitter; a loop that
\* comes back to the candidate it had, or outlasts MaxUnroll rounds, has no end
RECURSIVE LoopOutcome(_, _, _, _)
LoopOutcome(trigs, p, candidate, fuel) ==
    LET times == FireTimes(trigs, p, candidate)
    IN IF IsInSeq(Raise, times) THEN <<"SubError", None>>
       ELSE IF IsInSeq(None, times) THEN <<"return", None>>
       ELSE IF times = <<>> THEN <<"ValueError", None>>
       ELSE IF SeqMin(times) = SeqMax(times) THEN <<"return", times[1]>>
       ELSE IF NextCandidate(times, candidate) = candidate \/ fuel = 0
            THEN <<"endless", None>>
            ELSE LoopOutcome(trigs, p, NextCandidate(times, candidate), fuel - 1)

\* get_next_fire_time(p, n) of a combinator without jitter
CallOutcome(k, trigs, rd, p, n) ==
    IF k = "or"
    THEN LET r == OrResult(trigs, None, p, n, 0) IN <<r.outcome, r.value>>
    ELSE LET e == AndEntry(trigs, rd, p, n)
         IN IF e.pc = "done" THEN <<e.outcome, e.value>>
            ELSE LoopOutcome(trigs, p, n, MaxUnroll)

Perms(n) == { f \in [1..n -> 1..n] : \A i, j \in 1..n : f[i] = f[j] => i = j }

Permuted(trigs, f) == [i \in 1..Len(trigs) |-> trigs[f[i]]]

\* C16 (order independence): without jitter, a call that has ended gave the
\* outcome that the same call gives on every permutation of the sub-triggers.
C16_OrderIndependent ==
    (Called /\ jitter = None)
        => \A f \in Perms(Len(triggers)) :
             CallOutcome(kind, Permuted(triggers, f), reading,
                         previous_fire_time, now_arg) = <<outcome, result>>

====
